---- MODULE Spec2Model ----
(***************************************************************************)
(* Model of convergent/analysis/data/anonymize.py: a script that loads     *)
(* participants.csv with pandas, replaces the values of the columns        *)
(* workerid and hitId by the SHA-256 hex digest of their text, writes the  *)
(* table to anonymized_participants.csv and prints a completion notice.    *)
(*                                                                         *)
(* Text is a sequence of Unicode code points.  A CSV file is a sequence of *)
(* lines (the header first), each line a sequence of fields.  The library  *)
(* calls the script makes (pandas.read_csv, Series.apply, DataFrame.to_csv,*)
(* str.encode, hashlib.sha256, hexdigest) are modelled by what they do to  *)
(* such values: read_csv infers one dtype per column and converts the      *)
(* fields, to_csv formats the values back to text, sha256 is FIPS 180-4.   *)
(***************************************************************************)
EXTENDS Integers, Sequences, FiniteSets, TLC

VARIABLES
  participants,  \* the file participants.csv
  anonymized,    \* the file anonymized_participants.csv
  df,            \* the DataFrame held by the running script
  pc,            \* the statement the running script executes next
  err,           \* the exception that ended the run ("" while there is none)
  console,       \* the lines the running script has printed
  log,           \* the statements the running script has begun, in order
  calls,         \* the anonymize_value calls of the run: <<column, row>>
  before,        \* anonymized_participants.csv as it was when the run began
  how,           \* what started the run: "first", "rerun" or "feedback"
  run,           \* the number of the run
  arg,           \* anonymize_value called on its own: the argument
  ret            \* anonymize_value called on its own: the result

vars ==
  <<participants, anonymized, df, pc, err, console, log, calls, before, how,
    run, arg, ret>>

\* ---------------------------------------------------------------------
\* Bounds of the model.
\* ---------------------------------------------------------------------
MaxRows == 2   \* data rows of participants.csv
MaxRuns == 2   \* invocations of the script, one after the other
MaxLen == 2    \* length of the strings anonymize_value is called on alone

\* ---------------------------------------------------------------------
\* Text constants, as code points.
\* ---------------------------------------------------------------------
COL_workerid == <<119, 111, 114, 107, 101, 114, 105, 100>>  \* "workerid"
COL_hitId == <<104, 105, 116, 73, 100>>  \* "hitId"
\* "assignment_id"
COL_assignment_id ==
  <<97, 115, 115, 105, 103, 110, 109, 101, 110, 116, 95, 105, 100>>
COL_score == <<115, 99, 111, 114, 101>>  \* "score"
ID_alice == <<97, 108, 105, 99, 101>>  \* "alice"
ID_bob == <<98, 111, 98>>  \* "bob"
ID_123 == <<49, 50, 51>>  \* "123"
ID_HIT001 == <<72, 73, 84, 48, 48, 49>>  \* "HIT001"
TXT_empty == << >>  \* ""
TXT_007 == <<48, 48, 55>>  \* "007"
TXT_x == <<120>>  \* "x"
TXT_NA == <<78, 65>>  \* "NA"
TXT_A1 == <<65, 49>>  \* "A1"
TXT_True == <<84, 114, 117, 101>>  \* "True"
TXT_False == <<70, 97, 108, 115, 101>>  \* "False"
TXT_dot == <<46>>  \* "."
TXT_zero == <<48>>  \* "0"

\* The strings read_csv takes for a missing value (its default na_values).
NaValues ==
  {<< >>,                                   \* ""
   <<35, 78, 47, 65>>,                      \* "#N/A"
   <<35, 78, 47, 65, 32, 78, 47, 65>>,      \* "#N/A N/A"
   <<35, 78, 65>>,                          \* "#NA"
   <<45, 49, 46, 35, 73, 78, 68>>,          \* "-1.#IND"
   <<45, 49, 46, 35, 81, 78, 65, 78>>,      \* "-1.#QNAN"
   <<45, 78, 97, 78>>,                      \* "-NaN"
   <<45, 110, 97, 110>>,                    \* "-nan"
   <<49, 46, 35, 73, 78, 68>>,              \* "1.#IND"
   <<49, 46, 35, 81, 78, 65, 78>>,          \* "1.#QNAN"
   <<60, 78, 65, 62>>,                      \* "<NA>"
   <<78, 47, 65>>,                          \* "N/A"
   <<78, 65>>,                              \* "NA"
   <<78, 85, 76, 76>>,                      \* "NULL"
   <<78, 97, 78>>,                          \* "NaN"
   <<78, 111, 110, 101>>,                   \* "None"
   <<110, 47, 97>>,                         \* "n/a"
   <<110, 97, 110>>,                        \* "nan"
   <<110, 117, 108, 108>>                   \* "null"
  }

\* The strings read_csv takes for booleans (its default true and false values).
TrueValues ==
  {<<84, 114, 117, 101>>,
   <<84, 82, 85, 69>>,
   <<116, 114, 117, 101>>}  \* "True", "TRUE", "true"
FalseValues ==
  {<<70, 97, 108, 115, 101>>,
   <<70, 65, 76, 83, 69>>,
   <<102, 97, 108, 115, 101>>}  \* "False", "FALSE", "false"

\* ---------------------------------------------------------------------
\* hashlib.sha256 (FIPS 180-4).  A 32-bit word is a pair <<hi, lo>> of
\* 16-bit halves, so that no intermediate value exceeds 2^31 - 1.
\* ---------------------------------------------------------------------
Pow2(n) == 2 ^ n

\* Bitwise operations on 16-bit halves, one 4-bit digit at a time.
XorNibble ==
  <<
     <<0, 1, 2, 3, 4, 5, 6, 7, 8, 9, 10, 11, 12, 13, 14, 15>>,
     <<1, 0, 3, 2, 5, 4, 7, 6, 9, 8, 11, 10, 13, 12, 15, 14>>,
     <<2, 3, 0, 1, 6, 7, 4, 5, 10, 11, 8, 9, 14, 15, 12, 13>>,
     <<3, 2, 1, 0, 7, 6, 5, 4, 11, 10, 9, 8, 15, 14, 13, 12>>,
     <<4, 5, 6, 7, 0, 1, 2, 3, 12, 13, 14, 15, 8, 9, 10, 11>>,
     <<5, 4, 7, 6, 1, 0, 3, 2, 13, 12, 15, 14, 9, 8, 11, 10>>,
     <<6, 7, 4, 5, 2, 3, 0, 1, 14, 15, 12, 13, 10, 11, 8, 9>>,
     <<7, 6, 5, 4, 3, 2, 1, 0, 15, 14, 13, 12, 11, 10, 9, 8>>,
     <<8, 9, 10, 11, 12, 13, 14, 15, 0, 1, 2, 3, 4, 5, 6, 7>>,
     <<9, 8, 11, 10, 13, 12, 15, 14, 1, 0, 3, 2, 5, 4, 7, 6>>,
     <<10, 11, 8, 9, 14, 15, 12, 13, 2, 3, 0, 1, 6, 7, 4, 5>>,
     <<11, 10, 9, 8, 15, 14, 13, 12, 3, 2, 1, 0, 7, 6, 5, 4>>,
     <<12, 13, 14, 15, 8, 9, 10, 11, 4, 5, 6, 7, 0, 1, 2, 3>>,
     <<13, 12, 15, 14, 9, 8, 11, 10, 5, 4, 7, 6, 1, 0, 3, 2>>,
     <<14, 15, 12, 13, 10, 11, 8, 9, 6, 7, 4, 5, 2, 3, 0, 1>>,
     <<15, 14, 13, 12, 11, 10, 9, 8, 7, 6, 5, 4, 3, 2, 1, 0>>
  >>

AndNibble ==
  <<
     <<0, 0, 0, 0, 0, 0, 0, 0, 0, 0, 0, 0, 0, 0, 0, 0>>,
     <<0, 1, 0, 1, 0, 1, 0, 1, 0, 1, 0, 1, 0, 1, 0, 1>>,
     <<0, 0, 2, 2, 0, 0, 2, 2, 0, 0, 2, 2, 0, 0, 2, 2>>,
     <<0, 1, 2, 3, 0, 1, 2, 3, 0, 1, 2, 3, 0, 1, 2, 3>>,
     <<0, 0, 0, 0, 4, 4, 4, 4, 0, 0, 0, 0, 4, 4, 4, 4>>,
     <<0, 1, 0, 1, 4, 5, 4, 5, 0, 1, 0, 1, 4, 5, 4, 5>>,
     <<0, 0, 2, 2, 4, 4, 6, 6, 0, 0, 2, 2, 4, 4, 6, 6>>,
     <<0, 1, 2, 3, 4, 5, 6, 7, 0, 1, 2, 3, 4, 5, 6, 7>>,
     <<0, 0, 0, 0, 0, 0, 0, 0, 8, 8, 8, 8, 8, 8, 8, 8>>,
     <<0, 1, 0, 1, 0, 1, 0, 1, 8, 9, 8, 9, 8, 9, 8, 9>>,
     <<0, 0, 2, 2, 0, 0, 2, 2, 8, 8, 10, 10, 8, 8, 10, 10>>,
     <<0, 1, 2, 3, 0, 1, 2, 3, 8, 9, 10, 11, 8, 9, 10, 11>>,
     <<0, 0, 0, 0, 4, 4, 4, 4, 8, 8, 8, 8, 12, 12, 12, 12>>,
     <<0, 1, 0, 1, 4, 5, 4, 5, 8, 9, 8, 9, 12, 13, 12, 13>>,
     <<0, 0, 2, 2, 4, 4, 6, 6, 8, 8, 10, 10, 12, 12, 14, 14>>,
     <<0, 1, 2, 3, 4, 5, 6, 7, 8, 9, 10, 11, 12, 13, 14, 15>>
  >>

Nibbles(T, a, b) ==
  T[(a % 16) + 1][(b % 16) + 1] +
  16 * T[((a \div 16) % 16) + 1][((b \div 16) % 16) + 1] +
  256 * T[((a \div 256) % 16) + 1][((b \div 256) % 16) + 1] +
  4096 * T[(a \div 4096) + 1][(b \div 4096) + 1]

Xor16(a, b) == Nibbles(XorNibble, a, b)
And16(a, b) == Nibbles(AndNibble, a, b)

Xor(x, y) == <<Xor16(x[1], y[1]), Xor16(x[2], y[2])>>
And(x, y) == <<And16(x[1], y[1]), And16(x[2], y[2])>>
Not(x) == <<65535 - x[1], 65535 - x[2]>>

Add(x, y) ==
  LET lo == x[2] + y[2]
      hi == x[1] + y[1] + (lo \div 65536)
  IN  <<hi % 65536, lo % 65536>>

Shr(x, n) ==
  IF n >= 16 THEN <<0, x[1] \div Pow2(n - 16)>>
  ELSE <<x[1] \div Pow2(n),
         (x[2] \div Pow2(n)) + (x[1] % Pow2(n)) * Pow2(16 - n)>>

Rotr(x, n) ==
  LET y == IF n >= 16 THEN <<x[2], x[1]>> ELSE x
      m == n % 16
  IN  <<(y[1] \div Pow2(m)) + (y[2] % Pow2(m)) * Pow2(16 - m),
        (y[2] \div Pow2(m)) + (y[1] % Pow2(m)) * Pow2(16 - m)>>

Ch(x, y, z) == Xor(And(x, y), And(Not(x), z))
Maj(x, y, z) == Xor(Xor(And(x, y), And(x, z)), And(y, z))
BigSigma0(x) == Xor(Xor(Rotr(x, 2), Rotr(x, 13)), Rotr(x, 22))
BigSigma1(x) == Xor(Xor(Rotr(x, 6), Rotr(x, 11)), Rotr(x, 25))
SmallSigma0(x) == Xor(Xor(Rotr(x, 7), Rotr(x, 18)), Shr(x, 3))
SmallSigma1(x) == Xor(Xor(Rotr(x, 17), Rotr(x, 19)), Shr(x, 10))

H0 ==
  <<
     <<27145, 58983>>, <<47975, 44677>>, <<15470, 62322>>, <<42319, 62778>>,
     <<20750, 21119>>, <<39685, 26764>>, <<8067, 55723>>, <<23520, 52505>>
  >>

K ==
  <<
     <<17034, 12184>>, <<28983, 17553>>, <<46528, 64463>>, <<59829, 56229>>,
     <<14678, 49755>>, <<23025, 4593>>, <<37439, 33444>>, <<43804, 24277>>,
     <<55303, 43672>>, <<4739, 23297>>, <<9265, 34238>>, <<21772, 32195>>,
     <<29374, 23924>>, <<32990, 45566>>, <<39900, 1703>>, <<49563, 61812>>,
     <<58523, 27073>>, <<61374, 18310>>, <<4033, 40390>>, <<9228, 41420>>,
     <<11753, 11375>>, <<19060, 33962>>, <<23728, 43484>>, <<30457, 35034>>,
     <<38974, 20818>>, <<43057, 50797>>, <<45059, 10184>>, <<48985, 32711>>,
     <<50912, 3059>>, <<54695, 37191>>, <<1738, 25425>>, <<5161, 10599>>,
     <<10167, 2693>>, <<11803, 8504>>, <<19756, 28156>>, <<21304, 3347>>,
     <<25866, 29524>>, <<30314, 2747>>, <<33218, 51502>>, <<37490, 11397>>,
     <<41663, 59553>>, <<43034, 26187>>, <<49739, 35696>>, <<51052, 20899>>,
     <<53650, 59417>>, <<54937, 1572>>, <<62478, 13701>>, <<4202, 41072>>,
     <<6564, 49430>>, <<7735, 27656>>, <<10056, 30540>>, <<13488, 48309>>,
     <<14620, 3251>>, <<20184, 43594>>, <<23452, 51791>>, <<26670, 28659>>,
     <<29839, 33518>>, <<30885, 25455>>, <<33992, 30740>>, <<36039, 520>>,
     <<37054, 65530>>, <<42064, 27883>>, <<48889, 41975>>, <<50801, 30962>>
  >>

\* Message padding: 0x80, zero bytes up to 56 mod 64, the bit length on 8 bytes.
RECURSIVE Zeros(_)
Zeros(n) == IF n = 0 THEN << >> ELSE <<0>> \o Zeros(n - 1)

Pad(bytes) ==
  LET n == Len(bytes)
      z == (119 - (n % 64)) % 64
      bits == 8 * n
  IN  bytes \o <<128>> \o Zeros(z) \o
      <<0, 0, 0, 0, 0,
        (bits \div 65536) % 256, (bits \div 256) % 256, bits % 256>>

BlockWord(msg, b, t) ==
  LET o == 64 * b + 4 * (t - 1)
  IN  <<256 * msg[o + 1] + msg[o + 2], 256 * msg[o + 3] + msg[o + 4]>>

RECURSIVE Schedule(_, _, _)
Schedule(msg, b, w) ==
  LET t == Len(w) + 1
  IN  IF t > 64 THEN w
      ELSE IF t <= 16 THEN Schedule(msg, b, Append(w, BlockWord(msg, b, t)))
      ELSE Schedule(msg, b,
             Append(w, Add(Add(SmallSigma1(w[t - 2]), w[t - 7]),
                           Add(SmallSigma0(w[t - 15]), w[t - 16]))))

T1(v, kt, wt) ==
  Add(Add(Add(v[8], BigSigma1(v[5])), Add(Ch(v[5], v[6], v[7]), kt)), wt)
T2(v) == Add(BigSigma0(v[1]), Maj(v[1], v[2], v[3]))
Round(v, a, b) ==
  <<Add(a, b), v[1], v[2], v[3], Add(v[4], a), v[5], v[6], v[7]>>

\* (Len(v) is taken first so that v is evaluated before the next round.)
RECURSIVE Rounds(_, _, _)
Rounds(v, w, t) ==
  IF Len(v) # 8 \/ t > 64 THEN v
  ELSE Rounds(Round(v, T1(v, K[t], w[t]), T2(v)), w, t + 1)

AddState(h, v) ==
  <<Add(h[1], v[1]), Add(h[2], v[2]), Add(h[3], v[3]), Add(h[4], v[4]),
    Add(h[5], v[5]), Add(h[6], v[6]), Add(h[7], v[7]), Add(h[8], v[8])>>

Compress(h, msg, b) == AddState(h, Rounds(h, Schedule(msg, b, << >>), 1))

RECURSIVE Blocks(_, _, _)
Blocks(h, msg, b) ==
  IF 64 * b >= Len(msg) THEN h ELSE Blocks(Compress(h, msg, b), msg, b + 1)

sha256(bytes) == Blocks(H0, Pad(bytes), 0)

\* str.encode(): UTF-8 of a sequence of code points.  A surrogate code point
\* (U+D800..U+DFFF) has no UTF-8 encoding: encode raises UnicodeEncodeError.
IsSurrogate(c) == c >= 55296 /\ c <= 57343
CanEncode(s) == \A i \in 1..Len(s) : ~IsSurrogate(s[i])

EncodeChar(c) ==
  IF c < 128 THEN <<c>>
  ELSE IF c < 2048 THEN <<192 + (c \div 64), 128 + (c % 64)>>
  ELSE IF c < 65536
    THEN <<224 + (c \div 4096), 128 + ((c \div 64) % 64), 128 + (c % 64)>>
  ELSE <<240 + (c \div 262144), 128 + ((c \div 4096) % 64),
         128 + ((c \div 64) % 64), 128 + (c % 64)>>

RECURSIVE encode(_)
encode(s) == IF s = << >> THEN << >> ELSE EncodeChar(Head(s)) \o encode(Tail(s))

\* Faulty variant of HexChar: uppercase hexadecimal digits.
HexCharUpper(d) == IF d < 10 THEN 48 + d ELSE 55 + d

\* hexdigest(): two lowercase hexadecimal characters per digest byte.
HexChar(d) == IF d < 10 THEN 48 + d ELSE 87 + d
Hex16(h) ==
  <<HexChar(h \div 4096), HexChar((h \div 256) % 16),
    HexChar((h \div 16) % 16), HexChar(h % 16)>>

RECURSIVE hexdigest(_)
hexdigest(h) ==
  IF h = << >> THEN << >>
  ELSE Hex16(Head(h)[1]) \o Hex16(Head(h)[2]) \o hexdigest(Tail(h))

\* ---------------------------------------------------------------------
\* Values held by a DataFrame cell.  Every value is a record of the same
\* shape: k is the Python type, n the number, s the text.
\* ---------------------------------------------------------------------
StrValue(s) == [k |-> "str", n |-> 0, s |-> s]
IntValue(n) == [k |-> "int", n |-> n, s |-> << >>]
\* A float whose decimal expansion is n "." frac (frac has no trailing zero).
FloatValue(n, frac) == [k |-> "float", n |-> n, s |-> frac]
BoolValue(b) == [k |-> "bool", n |-> IF b THEN 1 ELSE 0, s |-> << >>]
NaN == [k |-> "nan", n |-> 0, s |-> << >>]
\* What a call yields when it raises instead of returning.
Raised(e) == [k |-> e, n |-> 0, s |-> << >>]
NotCalled == [k |-> "none", n |-> 0, s |-> << >>]

\* ---------------------------------------------------------------------
\* anonymize_value: hashlib.sha256(value.encode()).hexdigest().
\* Only a str has an encode method; any other value raises AttributeError.
\* A str that encode cannot encode raises UnicodeEncodeError.
\* ---------------------------------------------------------------------
Digest(s) == hexdigest(sha256(encode(s)))

\* The identifier strings of the input files of Init.
IdPool == {ID_alice, ID_bob, ID_123, ID_HIT001}

\* Digests computed once, when model checking starts, for the strings the
\* runs hash: the identifiers of IdPool, their digests, and so on for
\* MaxRuns runs.  Sha256Hex looks a string up here and computes the digest
\* of any string that is not in the table.
RECURSIVE DigestsUpTo(_)
DigestsUpTo(d) ==
  IF d = 0 THEN {}
  ELSE LET t == DigestsUpTo(d - 1)
           todo == (IdPool \cup {p[2] : p \in t}) \ {p[1] : p \in t}
       IN  t \cup {<<s, Digest(s)>> : s \in todo}

DigestTable == DigestsUpTo(MaxRuns)

Sha256Hex(s) ==
  IF \E p \in DigestTable : p[1] = s
  THEN (CHOOSE p \in DigestTable : p[1] = s)[2]
  ELSE Digest(s)

\* Faulty variant of anonymize_value: a value that already is a 64-character
\* hexadecimal token is returned as it is.
anonymize_value_once(value) ==
  IF value.k # "str" THEN Raised("AttributeError")
  ELSE IF ~CanEncode(value.s) THEN Raised("UnicodeEncodeError")
  ELSE IF /\ Len(value.s) = 64
          /\ \A i \in 1..64 :
               \/ (value.s[i] >= 48 /\ value.s[i] <= 57)
               \/ (value.s[i] >= 97 /\ value.s[i] <= 102)
    THEN value
  ELSE StrValue(Sha256Hex(value.s))

anonymize_value(value) ==
  IF value.k # "str" THEN Raised("AttributeError")
  ELSE IF ~CanEncode(value.s) THEN Raised("UnicodeEncodeError")
  ELSE StrValue(Sha256Hex(value.s))

\* ---------------------------------------------------------------------
\* pandas.read_csv with its defaults: one dtype is inferred per column
\* from the text of its fields, and the fields are converted to it.
\* Modelled number syntax: unsigned decimal integers, and decimals with
\* one point (no sign, no exponent, no thousands separator).
\* ---------------------------------------------------------------------
IsDigit(c) == c >= 48 /\ c <= 57
AllDigits(s) == \A i \in 1..Len(s) : IsDigit(s[i])
IsIntText(s) == s # << >> /\ AllDigits(s)
IsFloatText(s) ==
  /\ Len(s) > 1
  /\ \E p \in 1..Len(s) :
       /\ s[p] = 46
       /\ AllDigits(SubSeq(s, 1, p - 1))
       /\ AllDigits(SubSeq(s, p + 1, Len(s)))

RECURSIVE IntOf(_)
IntOf(s) ==
  IF s = << >> THEN 0
  ELSE 10 * IntOf(SubSeq(s, 1, Len(s) - 1)) + (s[Len(s)] - 48)

RECURSIVE StripZeros(_)
StripZeros(s) ==
  IF s # << >> /\ s[Len(s)] = 48 THEN StripZeros(SubSeq(s, 1, Len(s) - 1))
  ELSE s

FloatOf(s) ==
  LET p == CHOOSE q \in 1..Len(s) : s[q] = 46
  IN  FloatValue(IntOf(SubSeq(s, 1, p - 1)),
                 StripZeros(SubSeq(s, p + 1, Len(s))))

CellClass(s) ==
  IF s \in NaValues THEN "nan"
  ELSE IF IsIntText(s) THEN "int"
  ELSE IF IsFloatText(s) THEN "float"
  ELSE IF s \in TrueValues \cup FalseValues THEN "bool"
  ELSE "str"

\* The dtype of a column from its fields.  Missing values turn an integer
\* column into float64 and a boolean column into an object column of
\* booleans; a column with no data row is an empty object column.
ColumnDtype(cells) ==
  LET all == {CellClass(cells[i]) : i \in 1..Len(cells)}
      present == all \ {"nan"}
  IN  IF Len(cells) = 0 THEN "object"
      ELSE IF present = {} THEN "float64"
      ELSE IF present = {"int"}
        THEN (IF "nan" \in all THEN "float64" ELSE "int64")
      ELSE IF present \subseteq {"int", "float"} THEN "float64"
      ELSE IF present = {"bool"}
        THEN (IF "nan" \in all THEN "object of bool" ELSE "bool")
      ELSE "object"

ConvertCell(dtype, s) ==
  IF dtype = "int64" THEN IntValue(IntOf(s))
  ELSE IF dtype = "bool" THEN BoolValue(s \in TrueValues)
  ELSE IF s \in NaValues THEN NaN
  ELSE IF dtype = "float64"
    THEN (IF IsIntText(s) THEN FloatValue(IntOf(s), << >>) ELSE FloatOf(s))
  ELSE IF dtype = "object of bool" THEN BoolValue(s \in TrueValues)
  ELSE StrValue(s)

Column(lines, c) == [i \in 1..(Len(lines) - 1) |-> lines[i + 1][c]]

read_csv(lines) ==
  [loaded |-> TRUE,
   columns |-> lines[1],
   rows |-> [i \in 1..(Len(lines) - 1) |->
               [c \in 1..Len(lines[1]) |->
                  ConvertCell(ColumnDtype(Column(lines, c)), lines[i + 1][c])]]]

\* ---------------------------------------------------------------------
\* DataFrame.to_csv(index=False): the header, then one line per row, each
\* value formatted as text (a missing value as the empty field).
\* ---------------------------------------------------------------------
RECURSIVE IntText(_)
IntText(n) ==
  IF n < 10 THEN <<48 + n>> ELSE IntText(n \div 10) \o <<48 + (n % 10)>>

FormatValue(v) ==
  IF v.k = "str" THEN v.s
  ELSE IF v.k = "int" THEN IntText(v.n)
  ELSE IF v.k = "float"
    THEN IntText(v.n) \o TXT_dot \o (IF v.s = << >> THEN TXT_zero ELSE v.s)
  ELSE IF v.k = "bool" THEN (IF v.n = 1 THEN TXT_True ELSE TXT_False)
  ELSE << >>

\* Faulty variant of to_csv: the rows are written last to first.
to_csv_reversed(d) ==
  <<d.columns>> \o
  [i \in 1..Len(d.rows) |->
     [c \in 1..Len(d.columns) |->
        FormatValue(d.rows[Len(d.rows) + 1 - i][c])]]

to_csv(d) ==
  <<d.columns>> \o
  [i \in 1..Len(d.rows) |->
     [c \in 1..Len(d.columns) |-> FormatValue(d.rows[i][c])]]

\* ---------------------------------------------------------------------
\* df[name] and df[name].apply(anonymize_value).
\* ---------------------------------------------------------------------
\* The position of column name, 0 when the table has no such column.
ColumnIndex(columns, name) ==
  IF \E c \in 1..Len(columns) : columns[c] = name
  THEN CHOOSE c \in 1..Len(columns) :
         columns[c] = name /\ \A b \in 1..(c - 1) : columns[b] # name
  ELSE 0

\* Faulty variant of FirstRaise: the exception is swallowed.
FirstRaise_none(rows, c) == 0

\* The first row on which anonymize_value raises, 0 when it raises on none.
FirstRaise(rows, c) ==
  IF \E i \in 1..Len(rows) : anonymize_value(rows[i][c]).k # "str"
  THEN CHOOSE i \in 1..Len(rows) :
         /\ anonymize_value(rows[i][c]).k # "str"
         /\ \A j \in 1..(i - 1) : anonymize_value(rows[j][c]).k = "str"
  ELSE 0

\* Faulty variant of apply: the column is hashed twice.
apply_twice(rows, c) ==
  [i \in 1..Len(rows) |->
     [rows[i] EXCEPT ![c] = anonymize_value(anonymize_value(rows[i][c]))]]

\* Faulty variant of apply: every call salts the value, here with the row
\* number.
apply_salted(rows, c) ==
  [i \in 1..Len(rows) |->
     [rows[i] EXCEPT ![c] = StrValue(Digest(rows[i][c].s \o <<48 + i>>))]]

\* The rows with column c replaced by the result of apply.
apply(rows, c) ==
  [i \in 1..Len(rows) |-> [rows[i] EXCEPT ![c] = anonymize_value(rows[i][c])]]

\* The calls apply makes on rows 1..n of a column.
Calls(name, n) == [i \in 1..n |-> <<name, i>>]

\* ---------------------------------------------------------------------
\* Files and the script's state.
\* ---------------------------------------------------------------------
NoFile == [exists |-> FALSE, lines |-> << >>]
File(lines) == [exists |-> TRUE, lines |-> lines]
NoDf == [loaded |-> FALSE, columns |-> << >>, rows |-> << >>]
Message == "Anonymization completed and saved to 'anonymized_file.csv'."

\* The input files of Init: no file, an empty file, and every table with one
\* of the headers below and at most MaxRows rows over the column's values.
Headers ==
  {<<COL_workerid, COL_hitId, COL_score>>,
   <<COL_workerid, COL_assignment_id, COL_hitId>>,
   <<COL_hitId, COL_workerid>>,
   <<COL_workerid, COL_score>>,
   <<COL_hitId, COL_score>>}

CellPool(name) ==
  IF name = COL_workerid THEN {ID_alice, ID_bob, ID_123, TXT_empty}
  ELSE IF name = COL_hitId THEN {ID_HIT001, TXT_empty}
  ELSE IF name = COL_assignment_id THEN {TXT_A1, TXT_NA}
  ELSE {TXT_007, TXT_x}

AllCells ==
  {ID_alice, ID_bob, ID_123, ID_HIT001, TXT_empty, TXT_A1, TXT_NA, TXT_007,
   TXT_x}

RowPool(h) ==
  {r \in [1..Len(h) -> AllCells] : \A c \in 1..Len(h) : r[c] \in CellPool(h[c])}

Tables(h) ==
  UNION {{<<h>> \o rows : rows \in [1..n -> RowPool(h)]} : n \in 0..MaxRows}

InputFiles ==
  {NoFile, File(<< >>)} \cup {File(t) : t \in UNION {Tables(h) : h \in Headers}}

Init ==
  /\ participants \in InputFiles
  /\ anonymized = NoFile
  /\ df = NoDf
  /\ pc = "load"
  /\ err = ""
  /\ console = << >>
  /\ log = << >>
  /\ calls = << >>
  /\ before = NoFile
  /\ how = "first"
  /\ run = 1
  /\ arg = NaN
  /\ ret = NotCalled

\* A statement raises: the exception propagates and ends the run.
Fail(e) ==
  /\ pc' = "error"
  /\ err' = e

\* df = pd.read_csv('participants.csv')
Load ==
  /\ pc = "load"
  /\ log' = Append(log, "load")
  /\ \/ /\ ~participants.exists
        /\ Fail("FileNotFoundError")
        /\ df' = df
     \/ /\ participants.exists
        /\ Fail("PermissionError")
        /\ df' = df
     \/ /\ participants.exists
        /\ participants.lines = << >>
        /\ Fail("EmptyDataError")
        /\ df' = df
     \/ /\ participants.exists
        /\ participants.lines # << >>
        /\ df' = read_csv(participants.lines)
        /\ pc' = "workerid"
        /\ err' = err
  /\ UNCHANGED <<participants, anonymized, console, calls, before, how, run,
                 arg, ret>>

\* df[name] = df[name].apply(anonymize_value)
Transform(name, next) ==
  LET c == ColumnIndex(df.columns, name)
      bad == FirstRaise(df.rows, c)
  IN  /\ log' = Append(log, pc)
      /\ IF c = 0
           THEN /\ Fail("KeyError")
                /\ UNCHANGED <<df, calls>>
         ELSE IF bad # 0
           THEN /\ Fail(anonymize_value(df.rows[bad][c]).k)
                /\ calls' = calls \o Calls(name, bad)
                /\ df' = df
         ELSE /\ df' = [df EXCEPT !.rows = apply(df.rows, c)]
              /\ calls' = calls \o Calls(name, Len(df.rows))
              /\ pc' = next
              /\ err' = err
      /\ UNCHANGED <<participants, anonymized, console, before, how, run, arg,
                     ret>>

\* df['workerid'] = df['workerid'].apply(anonymize_value)
TransformWorkerid ==
  /\ pc = "workerid"
  /\ Transform(COL_workerid, "hitId")

\* df['hitId'] = df['hitId'].apply(anonymize_value)
TransformHitId ==
  /\ pc = "hitId"
  /\ Transform(COL_hitId, "write")

\* df.to_csv('anonymized_participants.csv', index=False): the file is opened
\* for writing, which empties it, and the lines are written in order.  The
\* open may fail (the file is left as it was), and a write may fail after
\* any number of lines.
Save ==
  /\ pc = "write"
  /\ log' = Append(log, "write")
  /\ \/ /\ Fail("PermissionError")
        /\ anonymized' = anonymized
     \/ \E n \in 0..(Len(to_csv(df)) - 1) :
          /\ Fail("OSError")
          /\ anonymized' = File(SubSeq(to_csv(df), 1, n))
     \/ /\ anonymized' = File(to_csv(df))
        /\ pc' = "notice"
        /\ err' = err
  /\ UNCHANGED <<participants, df, console, calls, before, how, run, arg, ret>>

\* Faulty variant of Notice: the notice is printed after a failed run too.
Notice_always ==
  /\ pc \in {"notice", "error"}
  /\ log' = Append(log, "notice")
  /\ console' = Append(console, Message)
  /\ pc' = "done"
  /\ UNCHANGED <<participants, anonymized, df, err, calls, before, how, run,
                 arg, ret>>

\* print("Anonymization completed and saved to 'anonymized_file.csv'.")
Notice ==
  /\ pc = "notice"
  /\ log' = Append(log, "notice")
  /\ console' = Append(console, Message)
  /\ pc' = "done"
  /\ UNCHANGED <<participants, anonymized, df, err, calls, before, how, run,
                 arg, ret>>

\* The script is started again as a new process: nothing of the finished
\* run is kept but the two files.
Start(kind) ==
  /\ pc = "done"
  /\ run < MaxRuns
  /\ run' = run + 1
  /\ how' = kind
  /\ before' = anonymized
  /\ df' = NoDf
  /\ pc' = "load"
  /\ err' = ""
  /\ console' = << >>
  /\ log' = << >>
  /\ calls' = << >>
  /\ UNCHANGED <<anonymized, arg, ret>>

\* The script is run again on the same participants.csv.
Rerun ==
  /\ Start("rerun")
  /\ participants' = participants

\* The written file is made the next run's participants.csv.
FeedBack ==
  /\ Start("feedback")
  /\ participants' = anonymized

Next ==
  \/ Load
  \/ TransformWorkerid
  \/ TransformHitId
  \/ Save
  \/ Notice
  \/ Rerun
  \/ FeedBack

Spec == Init /\ [][Next]_vars

\* ---------------------------------------------------------------------
\* anonymize_value called on its own, on every value of FnInputs, and
\* again on what it returned.
\* ---------------------------------------------------------------------
\* "0", "a", U+00E9, U+20AC, U+1F600 (UTF-8 sequences of 1, 1, 2, 3 and 4
\* bytes) and the surrogate U+D800.
Alphabet == {48, 97, 233, 8364, 55296, 128512}

Strings(n) == UNION {[1..m -> Alphabet] : m \in 0..n}

RECURSIVE Repeat(_, _)
Repeat(c, n) == IF n = 0 THEN << >> ELSE <<c>> \o Repeat(c, n - 1)

\* Strings on both sides of the length at which the padded message takes a
\* second 64-byte block, and a string of one full block.
LongStrings == {Repeat(97, 55), Repeat(97, 56), Repeat(97, 64)}

FnInputs ==
  {StrValue(s) : s \in Strings(MaxLen) \cup LongStrings} \cup
  {IntValue(123), FloatValue(7, << >>), BoolValue(TRUE), NaN}

InitFn ==
  /\ arg \in FnInputs
  /\ ret = NotCalled
  /\ pc = "call"
  /\ err = ""
  /\ calls = << >>
  /\ participants = NoFile
  /\ anonymized = NoFile
  /\ df = NoDf
  /\ console = << >>
  /\ log = << >>
  /\ before = NoFile
  /\ how = "alone"
  /\ run = 1

\* ret = anonymize_value(arg)
Call ==
  /\ pc = "call"
  /\ ret' = anonymize_value(arg)
  /\ calls' = Append(calls, <<TXT_empty, Len(calls) + 1>>)
  /\ IF ret'.k = "str"
       THEN pc' = "returned" /\ err' = err
       ELSE Fail(ret'.k)
  /\ UNCHANGED <<arg, participants, anonymized, df, console, log, before, how,
                 run>>

\* The returned string becomes the next argument.
Feed ==
  /\ pc = "returned"
  /\ Len(calls) < MaxRuns
  /\ arg' = ret
  /\ ret' = NotCalled
  /\ pc' = "call"
  /\ UNCHANGED <<err, calls, participants, anonymized, df, console, log,
                 before, how, run>>

NextFn ==
  \/ Call
  \/ Feed

SpecFn == InitFn /\ [][NextFn]_vars

\* SHA-256 hex digests of UTF-8 strings, as hashlib gives them.
TestVectors ==
  {
   \* "": e3b0c44298fc1c149afbf4c8996fb924
   \*   27ae41e4649b934ca495991b7852b855
   <<<< >>,
     <<101, 51, 98, 48, 99, 52, 52, 50, 57, 56, 102, 99, 49, 99, 49,
       52, 57, 97, 102, 98, 102, 52, 99, 56, 57, 57, 54, 102, 98, 57,
       50, 52, 50, 55, 97, 101, 52, 49, 101, 52, 54, 52, 57, 98, 57,
       51, 52, 99, 97, 52, 57, 53, 57, 57, 49, 98, 55, 56, 53, 50, 98,
       56, 53, 53>>>>,
   \* "a": ca978112ca1bbdcafac231b39a23dc4d
   \*   a786eff8147c4e72b9807785afee48bb
   <<<<97>>,
     <<99, 97, 57, 55, 56, 49, 49, 50, 99, 97, 49, 98, 98, 100, 99, 97,
       102, 97, 99, 50, 51, 49, 98, 51, 57, 97, 50, 51, 100, 99, 52,
       100, 97, 55, 56, 54, 101, 102, 102, 56, 49, 52, 55, 99, 52, 101,
       55, 50, 98, 57, 56, 48, 55, 55, 56, 53, 97, 102, 101, 101, 52,
       56, 98, 98>>>>,
   \* "0": 5feceb66ffc86f38d952786c6d696c79
   \*   c2dbc239dd4e91b46729d73a27fb57e9
   <<<<48>>,
     <<53, 102, 101, 99, 101, 98, 54, 54, 102, 102, 99, 56, 54, 102,
       51, 56, 100, 57, 53, 50, 55, 56, 54, 99, 54, 100, 54, 57, 54,
       99, 55, 57, 99, 50, 100, 98, 99, 50, 51, 57, 100, 100, 52, 101,
       57, 49, 98, 52, 54, 55, 50, 57, 100, 55, 51, 97, 50, 55, 102,
       98, 53, 55, 101, 57>>>>,
   \* U+00E9: 4a99557e4033c3539de2eb65472017ca
   \*   d5f9557f7a0625a09f1c3f6e2ba69c4c
   <<<<233>>,
     <<52, 97, 57, 57, 53, 53, 55, 101, 52, 48, 51, 51, 99, 51, 53, 51,
       57, 100, 101, 50, 101, 98, 54, 53, 52, 55, 50, 48, 49, 55, 99,
       97, 100, 53, 102, 57, 53, 53, 55, 102, 55, 97, 48, 54, 50, 53,
       97, 48, 57, 102, 49, 99, 51, 102, 54, 101, 50, 98, 97, 54, 57,
       99, 52, 99>>>>,
   \* U+20AC: c4cc90ed3d26f12d4b08a75140970a79
   \*   04035c31cbb4515a83f19b9003c00d1d
   <<<<8364>>,
     <<99, 52, 99, 99, 57, 48, 101, 100, 51, 100, 50, 54, 102, 49, 50,
       100, 52, 98, 48, 56, 97, 55, 53, 49, 52, 48, 57, 55, 48, 97, 55,
       57, 48, 52, 48, 51, 53, 99, 51, 49, 99, 98, 98, 52, 53, 49, 53,
       97, 56, 51, 102, 49, 57, 98, 57, 48, 48, 51, 99, 48, 48, 100,
       49, 100>>>>,
   \* U+1F600: f0443a342c5ef54783a111b51ba56c93
   \*   8e474c32324d90c3a60c9c8e3a37e2d9
   <<<<128512>>,
     <<102, 48, 52, 52, 51, 97, 51, 52, 50, 99, 53, 101, 102, 53, 52,
       55, 56, 51, 97, 49, 49, 49, 98, 53, 49, 98, 97, 53, 54, 99, 57,
       51, 56, 101, 52, 55, 52, 99, 51, 50, 51, 50, 52, 100, 57, 48,
       99, 51, 97, 54, 48, 99, 57, 99, 56, 101, 51, 97, 51, 55, 101,
       50, 100, 57>>>>,
   \* "a" U+20AC: 105d293c8503cf158fa5cc8cf904ad7a
   \*   67ec76ca620d8d56615363dfd21f78b5
   <<<<97, 8364>>,
     <<49, 48, 53, 100, 50, 57, 51, 99, 56, 53, 48, 51, 99, 102, 49,
       53, 56, 102, 97, 53, 99, 99, 56, 99, 102, 57, 48, 52, 97, 100,
       55, 97, 54, 55, 101, 99, 55, 54, 99, 97, 54, 50, 48, 100, 56,
       100, 53, 54, 54, 49, 53, 51, 54, 51, 100, 102, 100, 50, 49, 102,
       55, 56, 98, 53>>>>,
   \* "a" 55 times: 9f4390f8d30c2dd92ec9f095b65e2b9a
   \*   e9b0a925a5258e241c9f1e910f734318
   <<Repeat(97, 55),
     <<57, 102, 52, 51, 57, 48, 102, 56, 100, 51, 48, 99, 50, 100, 100,
       57, 50, 101, 99, 57, 102, 48, 57, 53, 98, 54, 53, 101, 50, 98,
       57, 97, 101, 57, 98, 48, 97, 57, 50, 53, 97, 53, 50, 53, 56,
       101, 50, 52, 49, 99, 57, 102, 49, 101, 57, 49, 48, 102, 55, 51,
       52, 51, 49, 56>>>>,
   \* "a" 56 times: b35439a4ac6f0948b6d6f9e3c6af0f5f
   \*   590ce20f1bde7090ef7970686ec6738a
   <<Repeat(97, 56),
     <<98, 51, 53, 52, 51, 57, 97, 52, 97, 99, 54, 102, 48, 57, 52, 56,
       98, 54, 100, 54, 102, 57, 101, 51, 99, 54, 97, 102, 48, 102, 53,
       102, 53, 57, 48, 99, 101, 50, 48, 102, 49, 98, 100, 101, 55, 48,
       57, 48, 101, 102, 55, 57, 55, 48, 54, 56, 54, 101, 99, 54, 55,
       51, 56, 97>>>>,
   \* "a" 64 times: ffe054fe7ae0cb6dc65c3af9b61d5209
   \*   f439851db43d0ba5997337df154668eb
   <<Repeat(97, 64),
     <<102, 102, 101, 48, 53, 52, 102, 101, 55, 97, 101, 48, 99, 98,
       54, 100, 99, 54, 53, 99, 51, 97, 102, 57, 98, 54, 49, 100, 53,
       50, 48, 57, 102, 52, 51, 57, 56, 53, 49, 100, 98, 52, 51, 100,
       48, 98, 97, 53, 57, 57, 55, 51, 51, 55, 100, 102, 49, 53, 52,
       54, 54, 56, 101, 98>>>>
  }

\* ---------------------------------------------------------------------
\* Properties.
\* ---------------------------------------------------------------------
In == participants.lines
Out == anonymized.lines
NRows == Len(In) - 1
IdColumns == {COL_workerid, COL_hitId}
Position(name) == ColumnIndex(In[1], name)
Loaded == read_csv(In)
Steps == <<"load", "workerid", "hitId", "write", "notice">>
IsPrefix(s, t) == Len(s) <= Len(t) /\ \A i \in 1..Len(s) : s[i] = t[i]
IsHexChar(c) == (c >= 48 /\ c <= 57) \/ (c >= 97 /\ c <= 102)

\* The write step has completed.
Wrote == pc \in {"notice", "done"}
\* The run is over.
Terminal == pc \in {"done", "error"}
\* Step number k of Steps has completed.
StepDone(k) == Len(log) > k \/ (Len(log) = k /\ pc # "error")
TransformDone(name) == StepDone(IF name = COL_workerid THEN 2 ELSE 3)
\* The table in memory holds the digest of every input value of the column.
HashedInMemory(name) ==
  \A i \in 1..NRows :
    df.rows[i][Position(name)] =
      StrValue(Sha256Hex(In[i + 1][Position(name)]))
\* Some value of the column was loaded as something other than a str.
NonString(name) ==
  /\ Position(name) # 0
  /\ \E i \in 1..NRows : Loaded.rows[i][Position(name)].k # "str"
FirstNonString(name) ==
  CHOOSE i \in 1..NRows :
    /\ Loaded.rows[i][Position(name)].k # "str"
    /\ \A j \in 1..(i - 1) : Loaded.rows[j][Position(name)].k = "str"
\* Every identifier value of the input file is present (no missing value).
IdsPresent ==
  \A name \in IdColumns : \A i \in 1..NRows :
    In[i + 1][Position(name)] \notin NaValues

\* C1: when a run has written its output, every workerid and hitId value of
\* the output is anonymize_value of the input value of the same row, and
\* anonymize_value was called exactly once per value, in row order.
C1_HashedOnce ==
  Wrote =>
    /\ Len(Out) = Len(In)
    /\ \A name \in IdColumns : \A i \in 1..NRows :
         Out[i + 1][Position(name)] =
           anonymize_value(StrValue(In[i + 1][Position(name)])).s
    /\ calls = Calls(COL_workerid, NRows) \o Calls(COL_hitId, NRows)

C1_Witness ==
  /\ pc = "done"
  /\ NRows = 2
  /\ In[2][Position(COL_workerid)] # In[3][Position(COL_workerid)]

\* C2: when a run has written its output, the output has the header of the
\* input and every column other than workerid and hitId holds the input's
\* text in every row.
C2_ColumnIsolation ==
  Wrote =>
    /\ Len(Out) = Len(In)
    /\ Out[1] = In[1]
    /\ \A i \in 1..NRows : \A c \in 1..Len(In[1]) :
         In[1][c] \notin IdColumns => Out[i + 1][c] = In[i + 1][c]

\* C3: after the load and after each transform the table in memory has one
\* row per input row, row i holding the values loaded from input row i (the
\* identifier columns possibly hashed), and the written file has one line
\* per input line, line i holding the text of row i.
C3_RowsKept ==
  /\ df.loaded =>
       /\ Len(df.rows) = NRows
       /\ df.columns = In[1]
       /\ \A i \in 1..NRows : \A c \in 1..Len(In[1]) :
            \/ df.rows[i][c] = Loaded.rows[i][c]
            \/ /\ In[1][c] \in IdColumns
               /\ df.rows[i][c] = anonymize_value(Loaded.rows[i][c])
  /\ Wrote =>
       /\ Len(Out) = Len(In)
       /\ \A i \in 1..NRows : \A c \in 1..Len(In[1]) :
            Out[i + 1][c] = FormatValue(df.rows[i][c])

C3_Witness ==
  /\ pc = "done"
  /\ NRows = 2
  /\ In[2] # In[3]

\* C4: when a run is over, the output file is as it was before the run or
\* holds the complete transformed table.
C4_NoPartialOutput ==
  Terminal =>
    \/ anonymized = before
    \/ /\ df.loaded
       /\ TransformDone(COL_workerid)
       /\ TransformDone(COL_hitId)
       /\ anonymized = File(to_csv(df))

\* C5: a run on an input file that has the columns workerid and hitId, with
\* a value in every one of their fields, does not end in an error, unless
\* reading or writing a file failed.
C5_InputAccepted ==
  (/\ pc = "error"
   /\ participants.exists
   /\ In # << >>
   /\ Position(COL_workerid) # 0
   /\ Position(COL_hitId) # 0
   /\ IdsPresent)
  => err \in {"PermissionError", "OSError"}

\* C6: when a workerid or hitId value was loaded as something other than a
\* str, the run never reaches the write step: it ends with the
\* AttributeError of the anonymize_value call on the first such value, with
\* no row skipped, the output file as it was and nothing printed.
C6_NonStringFails ==
  (df.loaded /\ (NonString(COL_workerid) \/ NonString(COL_hitId))) =>
    /\ pc \in {"workerid", "hitId", "error"}
    /\ anonymized = before
    /\ console = << >>
    /\ Len(df.rows) = NRows
    /\ pc = "hitId" => ~NonString(COL_workerid)
    /\ (pc = "error" /\ NonString(COL_workerid)) =>
         /\ err = "AttributeError"
         /\ calls = Calls(COL_workerid, FirstNonString(COL_workerid))
    /\ (pc = "error" /\ Position(COL_workerid) # 0
          /\ ~NonString(COL_workerid)) =>
         /\ err = "AttributeError"
         /\ calls = Calls(COL_workerid, NRows) \o
                    Calls(COL_hitId, FirstNonString(COL_hitId))
    /\ (pc = "error" /\ Position(COL_workerid) = 0) =>
         /\ err = "KeyError"
         /\ calls = << >>

C6_Witness ==
  /\ pc = "error"
  /\ err = "AttributeError"
  /\ calls = Calls(COL_workerid, 2) \o Calls(COL_hitId, 2)

\* C7: two rows with the same identifier get the same token, in memory and
\* in the written file, and a run on the same input as the run before it
\* writes the same output.
C7_Deterministic ==
  /\ \A name \in IdColumns :
       (df.loaded /\ TransformDone(name)) =>
         \A i, j \in 1..NRows :
           In[i + 1][Position(name)] = In[j + 1][Position(name)] =>
             df.rows[i][Position(name)] = df.rows[j][Position(name)]
  /\ Wrote =>
       \A name \in IdColumns : \A i, j \in 1..NRows :
         In[i + 1][Position(name)] = In[j + 1][Position(name)] =>
           Out[i + 1][Position(name)] = Out[j + 1][Position(name)]
  /\ (Wrote /\ how = "rerun") => anonymized = before

C7_Witness ==
  /\ pc = "done"
  /\ how = "rerun"
  /\ NRows = 2
  /\ In[2][Position(COL_workerid)] = In[3][Position(COL_workerid)]
  /\ df.rows[1][Position(COL_workerid)] = df.rows[2][Position(COL_workerid)]

C9_Rehashed ==
  (Wrote /\ how = "feedback") =>
    /\ participants = before
    /\ \A name \in IdColumns : \A i \in 1..NRows :
         /\ Len(In[i + 1][Position(name)]) = 64
         /\ Out[i + 1][Position(name)] =
              Sha256Hex(In[i + 1][Position(name)])
         /\ Out[i + 1][Position(name)] # In[i + 1][Position(name)]

C9_Witness ==
  /\ pc = "done"
  /\ how = "feedback"
  /\ NRows = 2

\* C10: the steps begin in the order load, workerid, hitId, write, notice,
\* each at most once; the write begins only when both identifier columns
\* are hashed in memory; the notice is printed once, exactly in the runs
\* whose write completed; and when hitId is missing the run fails after
\* workerid was hashed in memory, with nothing written or printed.
C10_StepOrder ==
  /\ IsPrefix(log, Steps)
  /\ Len(log) >= 4 =>
       HashedInMemory(COL_workerid) /\ HashedInMemory(COL_hitId)
  /\ Len(console) <= 1
  /\ console # << >> <=> pc = "done"
  /\ pc = "done" => (log = Steps /\ err = "" /\ anonymized = File(to_csv(df)))
  /\ pc = "notice" => anonymized = File(to_csv(df))
  /\ pc = "error" => (err # "" /\ IsPrefix(log, SubSeq(Steps, 1, 4)))
  /\ (pc = "error" /\ Len(log) = 4) => err \in {"PermissionError", "OSError"}
  /\ (df.loaded /\ Position(COL_workerid) # 0 /\ Position(COL_hitId) = 0
        /\ Terminal) =>
       \/ /\ err = "AttributeError"
          /\ log = SubSeq(Steps, 1, 2)
          /\ anonymized = before
       \/ /\ err = "KeyError"
          /\ log = SubSeq(Steps, 1, 3)
          /\ HashedInMemory(COL_workerid)
          /\ anonymized = before

C10_Witness ==
  /\ pc = "error"
  /\ err = "KeyError"
  /\ df.loaded
  /\ Position(COL_hitId) = 0
  /\ NRows = 2
  /\ HashedInMemory(COL_workerid)

====
